---- MODULE Spec2Model ----
(***************************************************************************)
(* Byte Pair Encoding tokenizer of train_tokenizer.py: get_stats, merge,   *)
(* train_bpe_tokenizer, encode and decode.                                 *)
(*                                                                         *)
(* Python dicts are insertion ordered; a dict is modelled as a sequence of *)
(* records [key, val] in insertion order.  A Python list or bytes object   *)
(* is a sequence (index 1 here is index 0 there), a str is a sequence of   *)
(* code points.                                                            *)
(***************************************************************************)
EXTENDS Integers, Sequences, FiniteSets, TLC

(* ---------------------------- bounds ----------------------------------- *)

\* longest training corpus, in code points
MaxCorpusLen == 4
\* largest number of merges requested (vocab_size - 256)
MaxMerges == 3
\* longest text handed to encode after a training run, in code points
MaxTextLen == 2
\* longest text handed to encode with a loaded merge table, in code points
MaxEncLen == 3
\* most rules in a loaded merge table
MaxRules == 2
\* longest list handed to merge directly
MaxMergeLen == 4

\* code points texts are drawn from: 'a', 'b', TELUGU LETTER TA (U+0C24)
Alphabet == {97, 98, 3108}
\* token ids that loaded merge tables and direct merge calls range over
TokenIds == {97, 98, 256}
\* new ids of loaded merge rules and of direct merge calls
NewIds == {256, 257}

(* ------------------------ Python dict helpers -------------------------- *)

\* d.get(k, default) / d[k]
DictGet(d, k, default) ==
    IF \E j \in 1..Len(d) : d[j].key = k
    THEN d[CHOOSE j \in 1..Len(d) : d[j].key = k].val
    ELSE default

\* k in d
DictHas(d, k) == \E j \in 1..Len(d) : d[j].key = k

\* d[k] = v : an existing key keeps its position, a new key goes last
DictPut(d, k, v) ==
    IF DictHas(d, k)
    THEN [j \in 1..Len(d) |-> IF d[j].key = k THEN [key |-> k, val |-> v] ELSE d[j]]
    ELSE Append(d, [key |-> k, val |-> v])

(* ------------------------------ UTF-8 ---------------------------------- *)

\* U+FFFD, what errors="replace" substitutes
ReplacementChar == 65533

\* str.encode("utf-8") of one code point (surrogates are not in Alphabet)
Utf8EncodeCp(cp) ==
    IF cp < 128 THEN <<cp>>
    ELSE IF cp < 2048 THEN <<192 + (cp \div 64), 128 + (cp % 64)>>
    ELSE IF cp < 65536
         THEN <<224 + (cp \div 4096), 128 + ((cp \div 64) % 64), 128 + (cp % 64)>>
         ELSE <<240 + (cp \div 262144), 128 + ((cp \div 4096) % 64),
                128 + ((cp \div 64) % 64), 128 + (cp % 64)>>

RECURSIVE Utf8Encode(_)
Utf8Encode(s) ==
    IF s = <<>> THEN <<>> ELSE Utf8EncodeCp(Head(s)) \o Utf8Encode(Tail(s))

\* bs[k] exists and lies in lo..hi
ByteIn(bs, k, lo, hi) == k <= Len(bs) /\ bs[k] >= lo /\ bs[k] <= hi

\* one step of bytes.decode("utf-8", errors="replace") at position k:
\* <<code point, bytes consumed>>; an ill-formed sequence yields U+FFFD for
\* its maximal well-formed prefix
Utf8DecodeAt(bs, k) ==
    LET b == bs[k] IN
    IF b < 128 THEN <<b, 1>>
    ELSE IF b >= 194 /\ b <= 223 THEN
        IF ByteIn(bs, k + 1, 128, 191)
        THEN <<(b - 192) * 64 + (bs[k + 1] - 128), 2>>
        ELSE <<ReplacementChar, 1>>
    ELSE IF b >= 224 /\ b <= 239 THEN
        IF ~ByteIn(bs, k + 1, IF b = 224 THEN 160 ELSE 128, IF b = 237 THEN 159 ELSE 191)
        THEN <<ReplacementChar, 1>>
        ELSE IF ~ByteIn(bs, k + 2, 128, 191)
        THEN <<ReplacementChar, 2>>
        ELSE <<(b - 224) * 4096 + (bs[k + 1] - 128) * 64 + (bs[k + 2] - 128), 3>>
    ELSE IF b >= 240 /\ b <= 244 THEN
        IF ~ByteIn(bs, k + 1, IF b = 240 THEN 144 ELSE 128, IF b = 244 THEN 143 ELSE 191)
        THEN <<ReplacementChar, 1>>
        ELSE IF ~ByteIn(bs, k + 2, 128, 191)
        THEN <<ReplacementChar, 2>>
        ELSE IF ~ByteIn(bs, k + 3, 128, 191)
        THEN <<ReplacementChar, 3>>
        ELSE <<(b - 240) * 262144 + (bs[k + 1] - 128) * 4096
               + (bs[k + 2] - 128) * 64 + (bs[k + 3] - 128), 4>>
    ELSE <<ReplacementChar, 1>>

RECURSIVE Utf8DecodeFrom(_, _)
Utf8DecodeFrom(bs, k) ==
    IF k > Len(bs) THEN <<>>
    ELSE LET r == Utf8DecodeAt(bs, k) IN <<r[1]>> \o Utf8DecodeFrom(bs, k + r[2])

Utf8Decode(bs) == Utf8DecodeFrom(bs, 1)

(* ----------------------------- get_stats ------------------------------- *)

\* In the loops below the value carried from one iteration to the next is
\* bound by a quantifier over a one-element set ("c \in {e}"), so that it is
\* computed once per iteration, as the assignment in the code does.

RECURSIVE get_stats_loop(_, _, _)
get_stats_loop(ids_, k, counts) ==
    IF k >= Len(ids_) THEN counts
    ELSE LET p == <<ids_[k], ids_[k + 1]>> IN
         CHOOSE r \in {get_stats_loop(ids_, k + 1, c) :
                          c \in {DictPut(counts, p, DictGet(counts, p, 0) + 1)}} : TRUE

get_stats(ids_) == get_stats_loop(ids_, 1, <<>>)

(* ------------------------------- merge --------------------------------- *)

RECURSIVE merge_loop(_, _, _, _, _)
merge_loop(ids_, pair, new_token_id, k, new_ids) ==
    IF k > Len(ids_) THEN new_ids
    ELSE IF k < Len(ids_) /\ ids_[k] = pair[1] /\ ids_[k + 1] = pair[2]
         THEN merge_loop(ids_, pair, new_token_id, k + 2, Append(new_ids, new_token_id))
         ELSE merge_loop(ids_, pair, new_token_id, k + 1, Append(new_ids, ids_[k]))

\* merge whose bound test stops one short: a pair at the very end is missed
RECURSIVE merge_loop_miss_last(_, _, _, _, _)
merge_loop_miss_last(ids_, pair, new_token_id, k, new_ids) ==
    IF k > Len(ids_) THEN new_ids
    ELSE IF k < Len(ids_) - 1 /\ ids_[k] = pair[1] /\ ids_[k + 1] = pair[2]
         THEN merge_loop_miss_last(ids_, pair, new_token_id, k + 2,
                                   Append(new_ids, new_token_id))
         ELSE merge_loop_miss_last(ids_, pair, new_token_id, k + 1,
                                   Append(new_ids, ids_[k]))

merge_miss_last(ids_, pair, new_token_id) ==
    merge_loop_miss_last(ids_, pair, new_token_id, 1, <<>>)

\* merge that advances by one after a match: the second element is kept
RECURSIVE merge_loop_no_skip(_, _, _, _, _)
merge_loop_no_skip(ids_, pair, new_token_id, k, new_ids) ==
    IF k > Len(ids_) THEN new_ids
    ELSE IF k < Len(ids_) /\ ids_[k] = pair[1] /\ ids_[k + 1] = pair[2]
         THEN merge_loop_no_skip(ids_, pair, new_token_id, k + 1,
                                 Append(new_ids, new_token_id))
         ELSE merge_loop_no_skip(ids_, pair, new_token_id, k + 1,
                                 Append(new_ids, ids_[k]))

merge_no_skip(ids_, pair, new_token_id) ==
    merge_loop_no_skip(ids_, pair, new_token_id, 1, <<>>)

merge(ids_, pair, new_token_id) == merge_loop(ids_, pair, new_token_id, 1, <<>>)

(* -------------------- max(stats, key=stats.get) ------------------------ *)

\* index of the first entry with the largest count: max keeps the first
\* maximal element it meets
RECURSIVE max_scan(_, _, _)
max_scan(stats, k, best) ==
    IF k > Len(stats) THEN best
    ELSE CHOOSE r \in {max_scan(stats, k + 1, b) :
                          b \in {IF stats[k].val > stats[best].val THEN k ELSE best}} : TRUE

\* max that keeps the last maximal element it meets
RECURSIVE max_scan_last(_, _, _)
max_scan_last(stats, k, best) ==
    IF k > Len(stats) THEN best
    ELSE CHOOSE r \in {max_scan_last(stats, k + 1, b) :
                          b \in {IF stats[k].val >= stats[best].val THEN k ELSE best}} : TRUE

max_by_count_last(stats) ==
    CHOOSE r \in {s[max_scan_last(s, 2, 1)].key : s \in {stats}} : TRUE

max_by_count(stats) == CHOOSE r \in {s[max_scan(s, 2, 1)].key : s \in {stats}} : TRUE

(* --------- min(stats, key=lambda p: merges.get(p, float('inf'))) ------- *)

\* float('inf'), the key of a pair without a rule
Inf == -1

RankLess(x, y) == x # Inf /\ (y = Inf \/ x < y)

\* index of the first entry with the smallest rank: min keeps the first
\* minimal element it meets
RECURSIVE min_scan(_, _, _, _)
min_scan(stats, merges_, k, best) ==
    IF k > Len(stats) THEN best
    ELSE CHOOSE r \in {min_scan(stats, merges_, k + 1, b) :
                          b \in {IF RankLess(DictGet(merges_, stats[k].key, Inf),
                                             DictGet(merges_, stats[best].key, Inf))
                                 THEN k ELSE best}} : TRUE

\* min without the key function: the first pair of the statistics
min_by_rank_no_key(stats, merges_) == CHOOSE r \in {s[1].key : s \in {stats}} : TRUE

\* the first pair of the statistics that has a rule, whatever its rank
RECURSIVE first_ruled_scan(_, _, _)
first_ruled_scan(stats, merges_, k) ==
    IF k > Len(stats) THEN 1
    ELSE IF DictHas(merges_, stats[k].key) THEN k
    ELSE first_ruled_scan(stats, merges_, k + 1)

min_by_rank_first_ruled(stats, merges_) ==
    CHOOSE r \in {s[first_ruled_scan(s, merges_, 1)].key : s \in {stats}} : TRUE

min_by_rank(stats, merges_) ==
    CHOOSE r \in {s[min_scan(s, merges_, 2, 1)].key : s \in {stats}} : TRUE

(* ---------------------------- bytes join ------------------------------- *)

\* b"".join(vocab[token] for token in tokens)
RECURSIVE join_bytes(_, _)
join_bytes(toks, vocab_) ==
    IF toks = <<>> THEN <<>> ELSE vocab_[Head(toks)] \o join_bytes(Tail(toks), vocab_)

(* ------------------------------- state --------------------------------- *)

VARIABLES
    pc,           \* where the program is
    text,         \* train_bpe_tokenizer: the corpus argument
    vocab_size,   \* train_bpe_tokenizer: the vocab_size argument
    tokens,       \* train_bpe_tokenizer: the corpus as bytes
    vocab,        \* token id -> bytes
    merges,       \* ordered dict (pair) -> new token id
    ids,          \* train_bpe_tokenizer: the current token sequence
    i,            \* train_bpe_tokenizer: the loop index (iterations completed)
    broke,        \* train_bpe_tokenizer: the loop was left through break
    chosen,       \* history: the sequence and the pair of the last training iteration
    result,       \* train_bpe_tokenizer: the returned dict, or the exception raised
    enc_text,     \* encode: the text argument
    enc_tokens,   \* encode: the current token sequence
    enc_applied,  \* history: number of merges encode has applied
    enc_last,     \* history: the sequence and the pair of the last encode iteration
    decoded,      \* decode: the returned str
    m_args,       \* merge called directly: its arguments
    m_ret         \* merge called directly: its result

vars == <<pc, text, vocab_size, tokens, vocab, merges, ids, i, broke, chosen, result,
          enc_text, enc_tokens, enc_applied, enc_last, decoded, m_args, m_ret>>

trainVars == <<text, vocab_size, tokens, vocab, merges, ids, i, broke, chosen, result>>
encVars == <<enc_text, enc_tokens, enc_applied, enc_last, decoded>>
mergeVars == <<m_args, m_ret>>

\* all sequences over S of length at most n
SeqsUpTo(S, n) == UNION {[1..k -> S] : k \in 0..n}

NoPair == <<>>
NoResult == [status |-> "none"]

(* ------------------------ train_bpe_tokenizer -------------------------- *)

\* one merge too many
num_merges_one_more == vocab_size - 255

num_merges == vocab_size - 256

\* {idx: bytes([idx]) for idx in range(256)}
base_vocab == [idx \in 0..255 |-> <<idx>>]

\* the two halves in the wrong order
new_vocab_entry_swapped(vocab_, pair) == vocab_[pair[2]] \o vocab_[pair[1]]

\* the left half twice
new_vocab_entry_left_twice(vocab_, pair) == vocab_[pair[1]] \o vocab_[pair[1]]

\* vocab[pair[0]] + vocab[pair[1]]
new_vocab_entry(vocab_, pair) == vocab_[pair[1]] \o vocab_[pair[2]]

\* vocab[new_token_id] = entry
vocab_put(vocab_, new_token_id, entry) ==
    [k \in DOMAIN vocab_ \cup {new_token_id} |->
        IF k = new_token_id THEN entry ELSE vocab_[k]]

TrainInit ==
    /\ pc = "start"
    /\ text \in SeqsUpTo(Alphabet, MaxCorpusLen)
    /\ vocab_size \in 256..(256 + MaxMerges)
    /\ tokens = <<>>
    /\ vocab = <<>>
    /\ merges = <<>>
    /\ ids = <<>>
    /\ i = 0
    /\ broke = FALSE
    /\ chosen = [ids |-> <<>>, pair |-> NoPair]
    /\ result = NoResult

EncIdle ==
    /\ enc_text = <<>>
    /\ enc_tokens = <<>>
    /\ enc_applied = 0
    /\ enc_last = [tokens |-> <<>>, pair |-> NoPair]
    /\ decoded = <<>>

MergeIdle ==
    /\ m_args = [ids |-> <<>>, pair |-> NoPair, new_token_id |-> 0]
    /\ m_ret = <<>>

Init == TrainInit /\ EncIdle /\ MergeIdle

\* the argument check and the set-up before the loop
TrainStart ==
    /\ pc = "start"
    /\ IF vocab_size <= 256
       THEN /\ pc' = "raised"
            /\ result' = [status |-> "ValueError"]
            /\ UNCHANGED <<tokens, vocab, merges, ids>>
       ELSE /\ pc' = "train"
            /\ tokens' = Utf8Encode(text)
            /\ vocab' = base_vocab
            /\ merges' = <<>>
            /\ ids' = Utf8Encode(text)
            /\ UNCHANGED result
    /\ UNCHANGED <<text, vocab_size, i, broke, chosen>>
    /\ UNCHANGED encVars
    /\ UNCHANGED mergeVars

\* one iteration of the merge loop that finds a pair
TrainStep ==
    /\ pc = "train"
    /\ i < num_merges
    /\ LET stats == get_stats(ids) IN
       /\ stats # <<>>
       /\ LET pair == max_by_count(stats)
              new_token_id == 256 + i
          IN /\ ids' = merge(ids, pair, new_token_id)
             /\ merges' = DictPut(merges, pair, new_token_id)
             /\ vocab' = vocab_put(vocab, new_token_id, new_vocab_entry(vocab, pair))
             /\ chosen' = [ids |-> ids, pair |-> pair]
    /\ i' = i + 1
    /\ UNCHANGED <<pc, text, vocab_size, tokens, broke, result>>
    /\ UNCHANGED encVars
    /\ UNCHANGED mergeVars

\* the loop ends (range exhausted, or break on empty statistics) and the
\* result is built
TrainExit ==
    /\ pc = "train"
    /\ LET stats == IF i < num_merges THEN get_stats(ids) ELSE <<>> IN
       /\ (i < num_merges) => (stats = <<>>)
       /\ broke' = (i < num_merges)
    /\ IF Len(ids) = 0
       THEN /\ pc' = "raised"
            /\ result' = [status |-> "ZeroDivisionError"]
       ELSE /\ pc' = "ready"
            /\ result' = [status |-> "returned",
                          vocab_size |-> Cardinality(DOMAIN vocab),
                          original_length |-> Len(tokens),
                          compressed_length |-> Len(ids),
                          compression_ratio |-> <<Len(tokens), Len(ids)>>]
    /\ UNCHANGED <<text, vocab_size, tokens, vocab, merges, ids, i, chosen>>
    /\ UNCHANGED encVars
    /\ UNCHANGED mergeVars

(* ------------------------------- encode -------------------------------- *)

\* the texts encode is called with: after a training run short texts and
\* the corpus itself, with a loaded merge table any text
TextInputs ==
    IF result.status = "returned"
    THEN SeqsUpTo(Alphabet, MaxTextLen) \cup {text}
    ELSE SeqsUpTo(Alphabet, MaxEncLen)

\* encode is entered with a text; the merges are those of the tokenizer
EncodeStart ==
    /\ pc = "ready"
    /\ \E t \in TextInputs :
          /\ enc_text' = t
          /\ enc_tokens' = Utf8Encode(t)
    /\ pc' = "encode"
    /\ UNCHANGED <<enc_applied, enc_last, decoded>>
    /\ UNCHANGED trainVars
    /\ UNCHANGED mergeVars

\* one iteration of the while loop that applies a merge
EncodeStep ==
    /\ pc = "encode"
    /\ Len(enc_tokens) >= 2
    /\ LET stats == get_stats(enc_tokens)
           pair == min_by_rank(stats, merges)
       IN /\ DictHas(merges, pair)
          /\ enc_tokens' = merge(enc_tokens, pair, DictGet(merges, pair, Inf))
          /\ enc_last' = [tokens |-> enc_tokens, pair |-> pair]
    /\ enc_applied' = enc_applied + 1
    /\ UNCHANGED <<pc, enc_text, decoded>>
    /\ UNCHANGED trainVars
    /\ UNCHANGED mergeVars

\* the while loop ends (fewer than two tokens, or break) and tokens is returned
EncodeReturn ==
    /\ pc = "encode"
    /\ IF Len(enc_tokens) >= 2
       THEN ~DictHas(merges, min_by_rank(get_stats(enc_tokens), merges))
       ELSE TRUE
    /\ pc' = "encoded"
    /\ UNCHANGED <<enc_text, enc_tokens, enc_applied, enc_last, decoded>>
    /\ UNCHANGED trainVars
    /\ UNCHANGED mergeVars

(* ------------------------------- decode -------------------------------- *)

\* decode(tokens, vocab) on what encode returned
Decode ==
    /\ pc = "encoded"
    /\ IF \A k \in 1..Len(enc_tokens) : enc_tokens[k] \in DOMAIN vocab
       THEN /\ decoded' = Utf8Decode(join_bytes(enc_tokens, vocab))
            /\ pc' = "decoded"
       ELSE /\ decoded' = <<>>
            /\ pc' = "KeyError"
    /\ UNCHANGED <<enc_text, enc_tokens, enc_applied, enc_last>>
    /\ UNCHANGED trainVars
    /\ UNCHANGED mergeVars

Next == TrainStart \/ TrainStep \/ TrainExit \/ EncodeStart \/ EncodeStep
        \/ EncodeReturn \/ Decode

Spec == Init /\ [][Next]_vars

(* --------------- encode with a merge table loaded from disk ------------ *)

TrainIdle ==
    /\ text = <<>>
    /\ vocab_size = 0
    /\ tokens = <<>>
    /\ ids = <<>>
    /\ i = 0
    /\ broke = FALSE
    /\ chosen = [ids |-> <<>>, pair |-> NoPair]
    /\ result = NoResult

Rules == [key : TokenIds \X TokenIds, val : NewIds]

\* r1 comes before r2: by new id, as a trainer writes its rules, then by pair
RuleBefore(r1, r2) ==
    \/ r1.val < r2.val
    \/ r1.val = r2.val /\ r1.key[1] < r2.key[1]
    \/ r1.val = r2.val /\ r1.key[1] = r2.key[1] /\ r1.key[2] < r2.key[2]

\* the dicts of at most MaxRules rules, no pair twice, one insertion order
\* for each (encode never iterates over merges)
MergeTables ==
    {t \in SeqsUpTo(Rules, MaxRules) :
        /\ \A j \in 1..(Len(t) - 1) : RuleBefore(t[j], t[j + 1])
        /\ \A j, k \in 1..Len(t) : t[j].key = t[k].key => j = k}

\* the tokenizer as load_tokenizer / the application hands it to encode:
\* whatever merge table the file holds
LoadedInit ==
    /\ pc = "ready"
    /\ merges \in MergeTables
    /\ vocab = base_vocab
    /\ TrainIdle
    /\ EncIdle
    /\ MergeIdle

NextEnc == EncodeStart \/ EncodeStep \/ EncodeReturn

SpecEnc == LoadedInit /\ [][NextEnc]_vars

\* encode is a sequential loop: a step that can be taken is taken
FairSpecEnc ==
    SpecEnc /\ WF_vars(EncodeStart) /\ WF_vars(EncodeStep) /\ WF_vars(EncodeReturn)

(* -------------------------- merge on its own --------------------------- *)

MergeInit ==
    /\ pc = "merge_call"
    /\ m_args \in [ids : SeqsUpTo(TokenIds, MaxMergeLen),
                   pair : TokenIds \X TokenIds,
                   new_token_id : NewIds]
    /\ m_ret = <<>>
    /\ merges = <<>>
    /\ vocab = <<>>
    /\ TrainIdle
    /\ EncIdle

MergeCall ==
    /\ pc = "merge_call"
    /\ m_ret' = merge(m_args.ids, m_args.pair, m_args.new_token_id)
    /\ pc' = "merge_ret"
    /\ UNCHANGED m_args
    /\ UNCHANGED trainVars
    /\ UNCHANGED encVars

NextMerge == MergeCall

SpecMerge == MergeInit /\ [][NextMerge]_vars

(* ------------------------- reading a sequence -------------------------- *)

\* the adjacent pairs of s
PairsOf(s) == {<<s[k], s[k + 1]>> : k \in 1..(Len(s) - 1)}

\* the positions at which q occurs in s
Occurrences(s, q) == {k \in 1..(Len(s) - 1) : <<s[k], s[k + 1]>> = q}

\* the leftmost position at which q occurs in s
FirstOccurrence(s, q) ==
    CHOOSE k \in Occurrences(s, q) : \A j \in Occurrences(s, q) : k <= j

Elements(s) == {s[k] : k \in 1..Len(s)}

(* ------------------------------ claims --------------------------------- *)

\* C1: round trip.  With vocab and merges of one training run, every id that
\* encode emits for a text is a key of vocab, the concatenation of the
\* vocab entries of the ids is the UTF-8 byte sequence of the text, and
\* decode returns the text.
RoundTrip ==
    /\ pc # "KeyError"
    /\ pc = "decoded" =>
          /\ \A k \in 1..Len(enc_tokens) : enc_tokens[k] \in DOMAIN vocab
          /\ join_bytes(enc_tokens, vocab) = Utf8Encode(enc_text)
          /\ decoded = enc_text

\* a text other than the corpus, with a multi-byte character, was encoded
\* to merged tokens and decoded
RoundTripWitness ==
    /\ pc = "decoded"
    /\ enc_text # text
    /\ 3108 \in Elements(enc_text)
    /\ 97 \in Elements(enc_text)
    /\ \E k \in 1..Len(enc_tokens) : enc_tokens[k] >= 257

\* C2: the encoder agrees with the trainer.  Encoding the corpus with the
\* merges of its own training run gives the token sequence training ended
\* with, whose length is the reported compressed_length.
EncoderAgreesWithTrainer ==
    (pc \in {"encoded", "decoded"} /\ enc_text = text) =>
        /\ enc_tokens = ids
        /\ Len(enc_tokens) = result.compressed_length

\* the corpus was encoded after a training run of several merges that left
\* several tokens
EncoderAgreesWitness ==
    /\ pc = "encoded"
    /\ enc_text = text
    /\ Len(merges) >= 2
    /\ Len(ids) >= 2
    /\ enc_applied >= 2

\* C3: Exhausted is reported, not an error.  When the pair statistics are
\* empty at iteration i the trainer returns normally, with vocab_size
\* 256 + i and the three length figures; no exception is raised.
ExhaustedIsReported ==
    broke =>
        /\ result.status = "returned"
        /\ result.vocab_size = 256 + i
        /\ result.original_length = Len(tokens)
        /\ result.compressed_length = Len(ids)
        /\ result.compression_ratio = <<Len(tokens), Len(ids)>>

\* C4: bounded vocabulary.  The vocab_size the trainer returns is at most
\* the requested size; it is the requested size unless the loop was left on
\* empty statistics, and then it is 256 plus the iterations completed.
BoundedVocabulary ==
    result.status = "returned" =>
        /\ result.vocab_size = Cardinality(DOMAIN vocab)
        /\ result.vocab_size <= vocab_size
        /\ broke => result.vocab_size = 256 + i
        /\ ~broke => result.vocab_size = vocab_size

\* training stopped early after at least one merge
BoundedVocabularyWitness ==
    /\ result.status = "returned"
    /\ broke
    /\ i >= 1
    /\ result.vocab_size < vocab_size

\* C5: monotonic, unique ranks.  The rule created at iteration i has id
\* 256 + i; the merge table holds one rule per created id, in increasing
\* order of insertion, none overwritten: its ids are 256 .. vocab_size - 1.
MonotonicUniqueRanks ==
    /\ Len(merges) = i
    /\ \A j \in 1..Len(merges) : merges[j].val = 255 + j
    /\ \A j, k \in 1..Len(merges) : merges[j].key = merges[k].key => j = k
    /\ result.status = "returned" =>
          {merges[j].val : j \in 1..Len(merges)} = 256..(result.vocab_size - 1)

\* training returned after creating several rules
MonotonicUniqueRanksWitness ==
    /\ result.status = "returned"
    /\ Len(merges) >= 3

\* the vocabulary is well formed with respect to the merge table
VocabWellFormed ==
    DOMAIN vocab # {} =>
        /\ \A b \in 0..255 : vocab[b] = <<b>>
        /\ DOMAIN vocab = (0..255) \cup {merges[j].val : j \in 1..Len(merges)}
        /\ \A j \in 1..Len(merges) :
              LET left == merges[j].key[1]
                  right == merges[j].key[2]
                  id == merges[j].val
              IN /\ id >= 256
                 /\ left \in DOMAIN vocab /\ left < id
                 /\ right \in DOMAIN vocab /\ right < id
                 /\ vocab[id] = vocab[left] \o vocab[right]

\* an entry of the vocabulary, once written, keeps its value
VocabFrozen ==
    \A k \in DOMAIN vocab : k \in DOMAIN vocab' /\ vocab'[k] = vocab[k]

\* C6: vocabulary invariant.  After every training iteration vocab[b] is
\* the single byte b for b < 256, every id >= 256 of vocab is the
\* concatenation of the entries of the two smaller, existing ids of its
\* rule, and no later iteration changes an entry.
VocabularyInvariant == [](VocabWellFormed) /\ [][VocabFrozen]_vars

\* a rule was built on an earlier rule: its entry is longer than two bytes
VocabularyInvariantWitness ==
    /\ pc = "ready"
    /\ \E j \in 1..Len(merges) :
          /\ merges[j].key[1] >= 256
          /\ merges[j].key[2] < 256
          /\ Len(vocab[merges[j].val]) >= 3

\* C7: training tie-break.  The pair a training iteration selects has the
\* largest adjacent-pair frequency in the current sequence, and among the
\* pairs of that frequency its first occurrence is the leftmost.
TrainingTieBreak ==
    chosen.pair # NoPair =>
        LET s == chosen.ids
            p == chosen.pair
        IN /\ p \in PairsOf(s)
           /\ \A q \in PairsOf(s) :
                 \/ Cardinality(Occurrences(s, q)) < Cardinality(Occurrences(s, p))
                 \/ /\ Cardinality(Occurrences(s, q)) = Cardinality(Occurrences(s, p))
                    /\ FirstOccurrence(s, p) <= FirstOccurrence(s, q)

\* an iteration chose between tied pairs, the winner occurring more than
\* once and not at the very start
TrainingTieBreakWitness ==
    /\ chosen.pair # NoPair
    /\ Cardinality(Occurrences(chosen.ids, chosen.pair)) >= 2
    /\ \E q \in PairsOf(chosen.ids) :
          /\ q # chosen.pair
          /\ Cardinality(Occurrences(chosen.ids, q))
                = Cardinality(Occurrences(chosen.ids, chosen.pair))
    /\ \E q \in PairsOf(chosen.ids) :
          Cardinality(Occurrences(chosen.ids, q))
                < Cardinality(Occurrences(chosen.ids, chosen.pair))

\* the id the merge table gives pair q
RuleOf(q) == merges[CHOOSE j \in 1..Len(merges) : merges[j].key = q].val

\* C8: encoder rank priority.  The pair an encode iteration merges has a
\* rule and is present, and no present pair with a rule has a smaller id;
\* the sequence encode returns has no adjacent pair with a rule.
EncoderRankPriority ==
    /\ enc_last.pair # NoPair =>
          LET s == enc_last.tokens
              p == enc_last.pair
          IN /\ p \in PairsOf(s)
             /\ DictHas(merges, p)
             /\ \A q \in PairsOf(s) : DictHas(merges, q) => RuleOf(p) <= RuleOf(q)
    /\ pc = "encoded" => \A q \in PairsOf(enc_tokens) : ~DictHas(merges, q)

\* the merged pair had the lower id although a pair with a higher id came
\* first and was at least as frequent
EncoderRankPriorityWitness ==
    /\ pc = "encoded"
    /\ enc_last.pair # NoPair
    /\ \E q \in PairsOf(enc_last.tokens) :
          /\ DictHas(merges, q)
          /\ RuleOf(q) > RuleOf(enc_last.pair)
          /\ FirstOccurrence(enc_last.tokens, q)
                < FirstOccurrence(enc_last.tokens, enc_last.pair)
          /\ Cardinality(Occurrences(enc_last.tokens, q))
                >= Cardinality(Occurrences(enc_last.tokens, enc_last.pair))

\* s with every occurrence of id x replaced by the two elements of pair p
RECURSIVE Expand(_, _, _)
Expand(s, x, p) ==
    IF s = <<>> THEN <<>>
    ELSE (IF Head(s) = x THEN <<p[1], p[2]>> ELSE <<Head(s)>>) \o Expand(Tail(s), x, p)

\* C9: merger non-overlap.  When the new id does not occur in the input,
\* the result of merge has no adjacent occurrence of the pair, and it is
\* the input with some occurrences of the pair replaced by the new id, all
\* other elements in their order.
MergerNonOverlap ==
    (pc = "merge_ret" /\ m_args.new_token_id \notin Elements(m_args.ids)) =>
        /\ m_args.pair \notin PairsOf(m_ret)
        /\ Expand(m_ret, m_args.new_token_id, m_args.pair) = m_args.ids

\* a run of three equal tokens was merged on the pair of that token, along
\* with another element
MergerNonOverlapWitness ==
    /\ pc = "merge_ret"
    /\ m_args.new_token_id \notin Elements(m_args.ids)
    /\ m_args.pair[1] = m_args.pair[2]
    /\ Cardinality(Occurrences(m_args.ids, m_args.pair)) >= 2
    /\ Len(m_ret) = 3
    /\ Len(m_args.ids) = 4

\* the sequence does not grow, and shrinks when a merge is applied
EncodeShrinks ==
    /\ Len(enc_tokens') <= Len(enc_tokens) \/ pc = "ready"
    /\ enc_applied' # enc_applied => Len(enc_tokens') < Len(enc_tokens)

RunCall ==
    /\ m_args.pair[1] = m_args.pair[2]
    /\ \A k \in 1..Len(m_args.ids) : m_args.ids[k] = m_args.pair[1]

\* C11: greedy run merging.  For a run of k >= 0 equal tokens a and the pair
\* (a, a), merge returns ceil(k / 2) elements: floor(k / 2) copies of the
\* new id followed by (k mod 2) copies of a.
GreedyRunMerging ==
    (pc = "merge_ret" /\ RunCall) =>
        LET k == Len(m_args.ids)
            half == k \div 2
        IN /\ Len(m_ret) = (k + 1) \div 2
           /\ Len(m_ret) = half + (k % 2)
           /\ \A j \in 1..half : m_ret[j] = m_args.new_token_id
           /\ \A j \in (half + 1)..Len(m_ret) : m_ret[j] = m_args.pair[1]

\* [97, 97, 97, 97] with pair (97, 97) and id 256 gave [256, 256]
GreedyRunMergingWitness ==
    /\ pc = "merge_ret"
    /\ m_args.ids = <<97, 97, 97, 97>>
    /\ m_args.pair = <<97, 97>>
    /\ m_args.new_token_id = 256
    /\ m_ret = <<256, 256>>

====
